---- MODULE Spec2Model ----
(***************************************************************************)
(* Price-sync core of HomeOffice-Site: the three update-prices.mjs         *)
(* variants (Keepa, Creators API, PA-API v5).  The template patcher        *)
(* updateFilePrice, the batch helper chunks and the orchestrators main /   *)
(* processMarket are translated from the JavaScript source.                *)
(*                                                                         *)
(* Numbers.  A quote (newPrice) is an integer number of hundredths         *)
(* (Keepa: raw / 100).  A recorded price is the exact decimal parseFloat   *)
(* reads, kept as num / den with den a power of ten.  The comparison       *)
(* changePct < MIN_CHANGE_PCT is evaluated exactly; for the magnitudes of  *)
(* prices the IEEE-754 evaluation of the source agrees with it.            *)
(***************************************************************************)
EXTENDS Integers, Sequences, FiniteSets, TLC

VARIABLES
    disk,       \* file path -> File(lines) or Missing
    calls,      \* log of the updateFilePrice calls made so far
    cArr,       \* chunks: the array argument
    cSize,      \* chunks: the size argument
    cOut,       \* chunks: the returned batches, or NoResult
    variant,    \* which update-prices.mjs runs: "keepa", "creators", "paapi"
    creds,      \* which of the credentials are set in the environment
    registry,   \* PRODUCTS (keepa) or FR_ASINS / EN_ASINS (creators, paapi)
    pc,         \* position of the run
    byKey,      \* keepa main: the deduplicated entries, in insertion order
    market,     \* processMarket: "fr" or "com"
    batches,    \* processMarket: chunks(asins, 10)
    idx,        \* index of the current byKey entry or batch
    ai,         \* processMarket: index of the current identifier in the batch
    resp,       \* the quote(s) the last fetch returned
    filesUpdated,
    asinsChecked,
    errors,
    total,
    fetches,    \* log of the fetcher invocations
    events,     \* order of the fetch, patch and delay steps
    exitCode,   \* process exit status, Running until the process ends
    fArg,       \* the argument of the function a specification applies
    fRet,       \* what it returned, or NoResult
    tokenCache, \* getBearerToken: market -> cached token and its expiry
    now,        \* Date.now(), in seconds
    tokenLog    \* log of the getBearerToken calls

patchVars == <<disk, calls>>
chunkVars == <<cArr, cSize, cOut>>
pureVars == <<fArg, fRet>>
tokenVars == <<tokenCache, now, tokenLog>>
runVars == <<variant, creds, registry, pc, byKey, market, batches, idx, ai, resp,
             filesUpdated, asinsChecked, errors, total, fetches, events, exitCode>>
vars == <<disk, calls, cArr, cSize, cOut, variant, creds, registry, pc, byKey,
          market, batches, idx, ai, resp, filesUpdated, asinsChecked, errors, total,
          fetches, events, exitCode, fArg, fRet, tokenCache, now, tokenLog>>

\* A file of the disk: existsSync and, when it exists, its lines
\* (readFileSync(...).split('\n'); writeFileSync(lines.join('\n')))
Missing == [exists |-> FALSE, lines |-> <<>>]
File(lines) == [exists |-> TRUE, lines |-> lines]
NoResult == [done |-> FALSE, out |-> <<>>]

\* ------------------------------------------------------------------------
\* Bounds of the exploration
\* ------------------------------------------------------------------------
MaxLines == 3
MaxCalls == 2
MaxArr == 23
MaxEntries == 2
MaxGap == 12
MaxTokenCalls == 2
MaxItems == 3
MaxBlocks == 2

\* ------------------------------------------------------------------------
\* Program constants
\* ------------------------------------------------------------------------
MIN_CHANGE_PCT == 3
LookAhead == 10
BatchSize == 10
RefreshMargin == 60
DefaultLifetime == 3600

\* ------------------------------------------------------------------------
\* Characters and numbers
\* ------------------------------------------------------------------------
DigitChars == <<"0", "1", "2", "3", "4", "5", "6", "7", "8", "9">>

IsDigit(c) == \E k \in 1..10 : DigitChars[k] = c

DigitVal(c) == (CHOOSE k \in 1..10 : DigitChars[k] = c) - 1

Abs(x) == IF x < 0 THEN -x ELSE x

Min(a, b) == IF a < b THEN a ELSE b

RECURSIVE Pow10(_)
Pow10(k) == IF k = 0 THEN 1 ELSE 10 * Pow10(k - 1)

\* currentStr.replace(/[^0-9.]/g, '')
StripNonNumeric(s) == SelectSeq(s, LAMBDA c : IsDigit(c) \/ c = ".")

\* longest prefix of digits
RECURSIVE DigitPrefix(_)
DigitPrefix(s) ==
    IF s = <<>> \/ ~IsDigit(Head(s)) THEN <<>>
    ELSE <<Head(s)>> \o DigitPrefix(Tail(s))

RECURSIVE DigitsToNat(_)
DigitsToNat(ds) ==
    IF ds = <<>> THEN 0
    ELSE 10 * DigitsToNat(SubSeq(ds, 1, Len(ds) - 1)) + DigitVal(ds[Len(ds)])

\* parseFloat on a string of digits and dots: digits, then at most one dot
\* with its digits; NaN when there is no digit at all.
\* the digits after the dot that follows the integer part ip of s
FractionDigits(s, ip) ==
    IF Len(s) > Len(ip) /\ s[Len(ip) + 1] = "."
    THEN DigitPrefix(SubSeq(s, Len(ip) + 2, Len(s)))
    ELSE <<>>

\* the number with integer digits ip and fraction digits fp
Decimal(ip, fp) ==
    IF ip = <<>> /\ fp = <<>>
    THEN [nan |-> TRUE, num |-> 0, den |-> 1]
    ELSE [nan |-> FALSE,
          num |-> DigitsToNat(ip) * Pow10(Len(fp)) + DigitsToNat(fp),
          den |-> Pow10(Len(fp))]

parseFloat(s) == Decimal(DigitPrefix(s), FractionDigits(s, DigitPrefix(s)))

\* `${rounded}` for a non-negative integer
RECURSIVE ToDigits(_)
ToDigits(n) ==
    IF n < 10 THEN <<DigitChars[n + 1]>>
    ELSE ToDigits(n \div 10) \o <<DigitChars[(n % 10) + 1]>>

\* Math.round(newPrice), newPrice in hundredths and >= 0
MathRound(newPrice) == (newPrice + 50) \div 100

\* currency === '$' ? `$${rounded}` : `${rounded}€`
formatted(currency, rounded) ==
    IF currency = "$" THEN <<"$">> \o ToDigits(rounded)
    ELSE ToDigits(rounded) \o <<"€">>

\* changePct < MIN_CHANGE_PCT, with changePct =
\* (Math.abs(newPrice - currentNum) / currentNum) * 100
BelowThresholdInclusive(newPrice, currentNum) ==
    Abs(newPrice * currentNum.den - 100 * currentNum.num)
        <= MIN_CHANGE_PCT * currentNum.num
BelowThreshold(newPrice, currentNum) ==
    Abs(newPrice * currentNum.den - 100 * currentNum.num)
        < MIN_CHANGE_PCT * currentNum.num

\* ------------------------------------------------------------------------
\* Lines of a template file.  A line is what the two regular expressions
\* and includes() see of it:
\*   asinDecl  line.match(/asin\s*:/)
\*   ids       the identifiers a for which line.includes(a)
\*   isPrice   the line matches the price regular expression
\*             /^(\s*price\s*:\s*[quote])([^quote]+)([quote].*)$/
\*   pre, val, post   m[1], m[2], m[3] of that match (val a sequence of
\*             characters); for other lines pre is the whole text
\* ------------------------------------------------------------------------
Asins == {"X", "Y"}

Currencies == {"€", "$"}

NonPrice(text, decl, ids) ==
    [asinDecl |-> decl, ids |-> ids, isPrice |-> FALSE,
     pre |-> text, val |-> <<>>, post |-> ""]

PriceLine(pre, val, post, decl, ids) ==
    [asinDecl |-> decl, ids |-> ids, isPrice |-> TRUE,
     pre |-> pre, val |-> val, post |-> post]

\* ------------------------------------------------------------------------
\* updateFilePrice: the scan
\* ------------------------------------------------------------------------
\* lines[j] = `${m[1]}${formatted}${m[3]}`
RewriteLineRequote(line, text) ==
    [line EXCEPT !.val = text, !.pre = "price: '", !.post = "',"]
RewriteLineDropPrefix(line, text) ==
    [line EXCEPT !.val = text, !.pre = "", !.isPrice = FALSE]
RewriteLine(line, text) == [line EXCEPT !.val = text]

\* if (lines[j].match(/asin\s*:/)) break;
HitsNextProductMut(line) == FALSE
HitsNextProduct(line) == line.asinDecl

\* The price line j is matched and its value parsed to currentNum: the
\* three breaks of the inner loop.  Returns the lines and the index
\* rewritten (0 when none).
Decide(lines, j, newPrice, currency, currentNum) ==
    IF currentNum.nan \/ currentNum.num = 0
    THEN [lines |-> lines, hit |-> 0]
    ELSE IF BelowThreshold(newPrice, currentNum)
    THEN [lines |-> lines, hit |-> 0]
    ELSE [lines |->
            [lines EXCEPT ![j] =
               RewriteLine(lines[j], formatted(currency, MathRound(newPrice)))],
          hit |-> j]

\* The inner loop from index j (1-based) for the occurrence at line i.
RECURSIVE LookForward(_, _, _, _, _)
LookForward(lines, i, j, newPrice, currency) ==
    IF j > Min(i + LookAhead - 1, Len(lines))
    THEN [lines |-> lines, hit |-> 0]
    ELSE IF ~lines[j].isPrice
    THEN IF HitsNextProduct(lines[j])
         THEN [lines |-> lines, hit |-> 0]
         ELSE LookForward(lines, i, j + 1, newPrice, currency)
    ELSE Decide(lines, j, newPrice, currency,
                parseFloat(StripNonNumeric(lines[j].val)))

\* if (!line.match(/asin\s*:/) || !line.includes(asin)) continue;
IsOccurrence(line, asin) == line.asinDecl /\ asin \in line.ids

\* The outer loop from index i; rewritten collects the indices assigned.
\* ScanNext continues after the lookahead of line i has returned r.
RECURSIVE ScanFrom(_, _, _, _, _, _)
RECURSIVE ScanNext(_, _, _, _, _, _)
ScanNextStop(r, i, asin, newPrice, currency, rewritten) ==
    [lines |-> r.lines,
     rewritten |-> IF r.hit = 0 THEN rewritten ELSE rewritten \cup {r.hit}]

ScanNext(r, i, asin, newPrice, currency, rewritten) ==
    ScanFrom(r.lines, i + 1, asin, newPrice, currency,
             IF r.hit = 0 THEN rewritten ELSE rewritten \cup {r.hit})

ScanFrom(lines, i, asin, newPrice, currency, rewritten) ==
    IF i > Len(lines)
    THEN [lines |-> lines, rewritten |-> rewritten]
    ELSE IF ~IsOccurrence(lines[i], asin)
    THEN ScanFrom(lines, i + 1, asin, newPrice, currency, rewritten)
    ELSE ScanNext(LookForward(lines, i, i + 1, newPrice, currency),
                  i, asin, newPrice, currency, rewritten)

\* if (changed) writeFileSync(...); return changed;  r is the scan's result
Finish(d, filePath, r) ==
    [disk |-> IF r.rewritten # {} THEN [d EXCEPT ![filePath] = File(r.lines)] ELSE d,
     ret |-> r.rewritten # {}, read |-> TRUE, wrote |-> r.rewritten # {},
     rewritten |-> r.rewritten]

\* updateFilePrice(filePath, asin, newPrice, currency) on the disk d: the
\* disk afterwards, the value returned, and what the call did.
updateFilePrice(d, filePath, asin, newPrice, currency) ==
    IF ~d[filePath].exists
    THEN [disk |-> d, ret |-> FALSE, read |-> FALSE, wrote |-> FALSE,
          rewritten |-> {}]
    ELSE Finish(d, filePath, ScanFrom(d[filePath].lines, 1, asin, newPrice, currency, {}))

\* The entry of the call log for a call on the disk d that resulted in u.
LogEntry(u, d, filePath, asin, newPrice, currency) ==
    [file |-> filePath, asin |-> asin, price |-> newPrice,
     currency |-> currency, before |-> d[filePath],
     after |-> u.disk[filePath], ret |-> u.ret, read |-> u.read,
     wrote |-> u.wrote, rewritten |-> u.rewritten]

\* ------------------------------------------------------------------------
\* chunks(arr, size)
\* ------------------------------------------------------------------------
\* arr.slice(i, i + size), i a 0-based index
SliceOffByOne(arr, i, size) == SubSeq(arr, i + 1, Min(i + size + 1, Len(arr)))
Slice(arr, i, size) == SubSeq(arr, i + 1, Min(i + size, Len(arr)))

RECURSIVE chunksFrom(_, _, _)
chunksFrom(arr, size, i) ==
    IF i < Len(arr)
    THEN <<Slice(arr, i, size)>> \o chunksFrom(arr, size, i + size)
    ELSE <<>>

chunks(arr, size) == chunksFrom(arr, size, 0)

\* ------------------------------------------------------------------------
\* The parts of the state a specification does not use
\* ------------------------------------------------------------------------
Running == -1
NoPrice == -1

ChunksIdle ==
    /\ cArr = <<>>
    /\ cSize = 1
    /\ cOut = NoResult

PureIdle ==
    /\ fArg = <<>>
    /\ fRet = NoResult

\* nothing cached, no call made
NoToken == [set |-> FALSE, token |-> <<>>, expiresAt |-> 0]

TokenIdle ==
    /\ tokenCache = [m \in {"fr", "com"} |-> NoToken]
    /\ now = 0
    /\ tokenLog = <<>>

RunIdle ==
    /\ variant = "keepa"
    /\ creds = [id |-> TRUE, secret |-> TRUE]
    /\ registry = [products |-> <<>>, fr |-> <<>>, com |-> <<>>]
    /\ pc = "idle"
    /\ byKey = <<>>
    /\ market = "fr"
    /\ batches = <<>>
    /\ idx = 0
    /\ ai = 0
    /\ resp = <<>>
    /\ filesUpdated = 0
    /\ asinsChecked = 0
    /\ errors = <<>>
    /\ total = 0
    /\ fetches = <<>>
    /\ events = <<>>
    /\ exitCode = Running

\* ------------------------------------------------------------------------
\* Specification of the patcher alone: a template file, then calls of
\* updateFilePrice on it
\* ------------------------------------------------------------------------
PatchFile == "src/pages/index.astro"

Quotes == {10200, 10300, 10400, 1040, 40}

LineShapes ==
    { NonPrice("asin: 'X',", TRUE, {"X"}),
      NonPrice("asin: \"Y\",", TRUE, {"Y"}),
      NonPrice("link: 'https://www.amazon.fr/dp/X',", FALSE, {"X"}),
      PriceLine("    price: '", <<"1", "0", "0", "€">>, "',", FALSE, {}),
      PriceLine("price: \"", <<"$", "9", ".", "9", "9">>, "\", // promo", FALSE, {}),
      PriceLine("price: '", <<"N", "/", "A">>, "',", FALSE, {}),
      PriceLine("price: '", <<"0", "€">>, "',", FALSE, {}),
      PriceLine("price: '", <<"1", "0", "0", "€">>, "', asin: 'Y'", TRUE, {"Y"}) }

Templates == UNION { [1..n -> LineShapes] : n \in 1..MaxLines }

PatchInit ==
    /\ disk \in [{PatchFile} -> {File(t) : t \in Templates} \cup {Missing}]
    /\ calls = <<>>
    /\ ChunksIdle
    /\ RunIdle
    /\ PureIdle
    /\ TokenIdle

\* the call with these arguments, u being what updateFilePrice does
Call(u, filePath, asin, newPrice, currency) ==
    /\ calls' = Append(calls, LogEntry(u, disk, filePath, asin, newPrice, currency))
    /\ disk' = u.disk

\* a first call, with any arguments
PatchCall(asin, newPrice, currency) ==
    /\ calls = <<>>
    /\ Call(updateFilePrice(disk, PatchFile, asin, newPrice, currency),
            PatchFile, asin, newPrice, currency)
    /\ UNCHANGED <<chunkVars, runVars, pureVars, tokenVars>>

\* the arguments of the last call
LastCall == calls[Len(calls)]

\* the patcher run again, in succession, with the same arguments
PatchAgain ==
    /\ calls # <<>>
    /\ Len(calls) < MaxCalls
    /\ Call(updateFilePrice(disk, LastCall.file, LastCall.asin, LastCall.price,
                            LastCall.currency),
            LastCall.file, LastCall.asin, LastCall.price, LastCall.currency)
    /\ UNCHANGED <<chunkVars, runVars, pureVars, tokenVars>>

PatchNext ==
    \/ \E asin \in Asins, newPrice \in Quotes, currency \in Currencies :
          PatchCall(asin, newPrice, currency)
    \/ PatchAgain

PatchSpec == PatchInit /\ [][PatchNext]_vars

\* ------------------------------------------------------------------------
\* Specification of chunks alone
\* ------------------------------------------------------------------------
ChunksInit ==
    /\ cArr \in { [k \in 1..n |-> k] : n \in 0..MaxArr }
    /\ cSize \in 1..BatchSize
    /\ cOut = NoResult
    /\ disk = [f \in {PatchFile} |-> Missing]
    /\ calls = <<>>
    /\ RunIdle
    /\ PureIdle
    /\ TokenIdle

ChunksCall ==
    /\ cOut = NoResult
    /\ cOut' = [done |-> TRUE, out |-> chunks(cArr, cSize)]
    /\ UNCHANGED <<disk, calls, cArr, cSize, runVars, pureVars, tokenVars>>

ChunksNext == ChunksCall

ChunksSpec == ChunksInit /\ [][ChunksNext]_vars

\* ------------------------------------------------------------------------
\* The orchestrators.  Keepa variant: main over PRODUCTS.  Creators and
\* PA-API variants: main and processMarket over FR_ASINS / EN_ASINS.
\* ------------------------------------------------------------------------
\* Set.add
AddOnce(files, f) ==
    IF \E k \in 1..Len(files) : files[k] = f THEN files ELSE Append(files, f)

\* [...new Set(files)]
RECURSIVE Unique(_)
Unique(files) ==
    IF files = <<>> THEN <<>>
    ELSE AddOnce(Unique(SubSeq(files, 1, Len(files) - 1)), files[Len(files)])

\* the position of the entry with this key in the Map, 0 if it has none
KeyIndex(map, asin, domain) ==
    IF \E k \in 1..Len(map) : map[k].asin = asin /\ map[k].domain = domain
    THEN CHOOSE k \in 1..Len(map) : map[k].asin = asin /\ map[k].domain = domain
    ELSE 0

\* for (const f of p.files) if (!byKey.get(key).files.includes(f)) push(f)
RECURSIVE MergeFiles(_, _)
MergeFiles(files, more) ==
    IF more = <<>> THEN files
    ELSE MergeFiles(AddOnce(files, Head(more)), Tail(more))

\* byKey.set(key, {...p}) when the key is new (k = 0), else the merge
Put(map, p, k) ==
    IF k = 0 THEN Append(map, p)
    ELSE [map EXCEPT ![k].files = MergeFiles(map[k].files, p.files)]

\* the deduplication loop of main, from the map built so far
RECURSIVE DedupNone(_, _)
DedupNone(products, map) ==
    IF products = <<>> THEN map ELSE DedupNone(Tail(products), Append(map, Head(products)))

RECURSIVE Dedup(_, _)
Dedup(products, map) ==
    IF products = <<>> THEN map
    ELSE Dedup(Tail(products), Put(map, Head(products),
                                    KeyIndex(map, Head(products).asin,
                                             Head(products).domain)))

\* the results of a loop over files put together: first is the result of
\* one call, rest that of the calls after it
NoCalls(d) == [disk |-> d, recs |-> <<>>, updated |-> 0]

ThenCountAll(first, entry, rest) ==
    [disk |-> rest.disk, recs |-> <<entry>> \o rest.recs, updated |-> 1 + rest.updated]

Then(first, entry, rest) ==
    [disk |-> rest.disk, recs |-> <<entry>> \o rest.recs,
     updated |-> (IF first.ret THEN 1 ELSE 0) + rest.updated]

\* for (const file of files) if (updateFilePrice(file, asin, price, currency))
\*   filesUpdated++
\* The disk afterwards, the calls made and the number that returned true.
\* PatchRest continues after the call on the first file has resulted in u.
RECURSIVE PatchFiles(_, _, _, _, _)
RECURSIVE PatchRest(_, _, _, _, _, _)
PatchRestStopAtMissing(u, d, files, asin, price, currency) ==
    IF ~u.read THEN NoCalls(d)
    ELSE Then(u, LogEntry(u, d, Head(files), asin, price, currency),
              PatchFiles(u.disk, Tail(files), asin, price, currency))

PatchRest(u, d, files, asin, price, currency) ==
    Then(u, LogEntry(u, d, Head(files), asin, price, currency),
         PatchFiles(u.disk, Tail(files), asin, price, currency))

PatchFiles(d, files, asin, price, currency) ==
    IF files = <<>>
    THEN NoCalls(d)
    ELSE PatchRest(updateFilePrice(d, Head(files), asin, price, currency),
                   d, files, asin, price, currency)

\* ---- Keepa: fetchKeepaPrice ------------------------------------------------
\* A slot of stats.current: Undefined when absent, else the Keepa integer
Undefined == -2

\* candidates.find((v) => v != null && v > 0), then raw / 100 (the quote is
\* kept in hundredths, that is, as raw); NoPrice stands for null
SelectCandidateNonNull(candidates) ==
    IF \E k \in 1..Len(candidates) : candidates[k] # Undefined
    THEN IF candidates[CHOOSE k \in 1..Len(candidates) :
                         /\ candidates[k] # Undefined
                         /\ \A m \in 1..(k - 1) : candidates[m] = Undefined] = 0
         THEN NoPrice
         ELSE candidates[CHOOSE k \in 1..Len(candidates) :
                           /\ candidates[k] # Undefined
                           /\ \A m \in 1..(k - 1) : candidates[m] = Undefined]
    ELSE NoPrice

SelectCandidate(candidates) ==
    IF \E k \in 1..Len(candidates) : candidates[k] # Undefined /\ candidates[k] > 0
    THEN candidates[CHOOSE k \in 1..Len(candidates) :
                      /\ candidates[k] # Undefined /\ candidates[k] > 0
                      /\ \A m \in 1..(k - 1) :
                            ~(candidates[m] # Undefined /\ candidates[m] > 0)]
    ELSE NoPrice

\* the value fetchKeepaPrice returns for a response with res.ok
fetchKeepaPrice(data) ==
    IF ~data.hasProduct THEN NoPrice
    ELSE IF ~data.hasStats THEN NoPrice
    ELSE SelectCandidate(<<data.buyBox, data.direct, data.marketNew>>)

HttpError == [kind |-> "http"]
AuthFailed == [kind |-> "auth"]

KeepaData(hasProduct, hasStats, buyBox, direct, marketNew) ==
    [kind |-> "ok", hasProduct |-> hasProduct, hasStats |-> hasStats,
     buyBox |-> buyBox, direct |-> direct, marketNew |-> marketNew]

\* the upstream answers of the exploration
KeepaResponses ==
    { HttpError,
      KeepaData(FALSE, FALSE, Undefined, Undefined, Undefined),
      KeepaData(TRUE, TRUE, 10640, 10200, Undefined),
      KeepaData(TRUE, TRUE, -1, Undefined, 10200) }

\* ---- Creators API / PA-API: the items of a response -------------------------
\* for (const item of items) { price = item.offersV2?.listings?.[0]?.price?.amount;
\*                             if (price != null) prices[item.asin] = price; }
\* An item is null, or has an asin and an amount (NoPrice when a link of
\* the optional chain is missing).  item.offersV2 of a null item throws.
ItemsThrow(items) == \E k \in 1..Len(items) : items[k].isNull

RECURSIVE ItemPrices(_, _)
ItemPrices(items, asin) ==
    IF items = <<>> THEN NoPrice
    ELSE IF /\ ~items[Len(items)].isNull
            /\ items[Len(items)].asin = asin
            /\ items[Len(items)].amount # NoPrice
    THEN items[Len(items)].amount
    ELSE ItemPrices(SubSeq(items, 1, Len(items) - 1), asin)

Item(asin, amount) == [isNull |-> FALSE, asin |-> asin, amount |-> amount]
NullItem == [isNull |-> TRUE, asin |-> "", amount |-> NoPrice]

Items(items) == [kind |-> "ok", items |-> items]

\* const prices = {}; the loop over the items; return prices: what the
\* fetch makes of the items of a response with res.ok, for the identifiers
\* asked (threw: the loop threw a TypeError)
ParseItems(items, asins) ==
    [threw |-> ItemsThrow(items),
     prices |-> IF ItemsThrow(items) THEN <<>>
                ELSE [k \in 1..Len(asins) |-> ItemPrices(items, asins[k])]]

\* fetchCreatorsPrices / fetchPAAIPrices throws: the token request failed
\* (Creators API only), the items request was not ok, or an item is null
FetchThrows(v, r) ==
    \/ r.kind = "auth" /\ v = "creators"
    \/ r.kind = "http"
    \/ r.kind = "ok" /\ ItemsThrow(r.items)

\* the upstream answers of the exploration for a batch
BatchResponses(v, batch) ==
    (IF v = "creators" THEN {AuthFailed} ELSE {}) \cup
    { HttpError,
      Items(<<>>),
      Items([k \in 1..Len(batch) |-> Item(batch[k], 10640)]),
      Items(<<Item(batch[1], 10200), Item(batch[Len(batch)], NoPrice)>>),
      Items(<<Item(batch[1], 10640), NullItem>>) }

\* Object.keys(asinMap)
Keys(asinMap) == [k \in 1..Len(asinMap) |-> asinMap[k].asin]

\* asinMap[asin]
FilesOf(asinMap, asin) ==
    asinMap[CHOOSE k \in 1..Len(asinMap) : asinMap[k].asin = asin].files

\* ---- the registries and disks of the exploration ----------------------------
IndexPage == "src/pages/index.astro"
SetupPage == "src/pages/home-office-setup.astro"
GonePage == "src/pages/removed.astro"
EnPage == "src/pages/en/index.astro"

Entry(asin, domain, currency, files) ==
    [asin |-> asin, domain |-> domain, currency |-> currency, files |-> files]

EntryShapes ==
    { Entry("X", 4, "€", <<IndexPage, SetupPage>>),
      Entry("X", 4, "€", <<GonePage, SetupPage>>),
      Entry("X", 4, "€", <<IndexPage, GonePage, SetupPage>>),
      Entry("Y", 4, "€", <<IndexPage, IndexPage, GonePage>>),
      Entry("X", 1, "$", <<EnPage>>) }

KeepaRegistries == UNION { [1..n -> EntryShapes] : n \in 1..MaxEntries }

Ref(asin, files) == [asin |-> asin, files |-> files]

Fillers ==
    <<Ref("A02", <<SetupPage>>), Ref("A03", <<SetupPage>>), Ref("A04", <<SetupPage>>),
      Ref("A05", <<SetupPage>>), Ref("A06", <<SetupPage>>), Ref("A07", <<SetupPage>>),
      Ref("A08", <<SetupPage>>), Ref("A09", <<SetupPage>>), Ref("A10", <<SetupPage>>)>>

BatchRegistries ==
    { [products |-> <<>>,
       fr  |-> <<Ref("X", <<IndexPage, SetupPage>>), Ref("Y", <<GonePage, IndexPage>>)>>,
       com |-> <<Ref("X", <<EnPage>>)>>],
      [products |-> <<>>,
       fr  |-> <<Ref("X", <<IndexPage, GonePage, SetupPage>>)>> \o Fillers
               \o <<Ref("Y", <<IndexPage>>), Ref("A12", <<GonePage>>)>>,
       com |-> <<Ref("X", <<EnPage>>)>>],
      [products |-> <<>>,
       fr  |-> <<Ref("X", <<IndexPage, SetupPage>>)>>,
       com |-> <<>>] }

AsinX == NonPrice("asin: 'X',", TRUE, {"X"})
AsinY == NonPrice("asin: \"Y\",", TRUE, {"Y"})
LinkX == NonPrice("link: 'https://www.amazon.fr/dp/X',", FALSE, {"X"})
Price100 == PriceLine("    price: '", <<"1", "0", "0", "€">>, "',", FALSE, {})
Price999 == PriceLine("price: \"", <<"$", "9", ".", "9", "9">>, "\", // promo", FALSE, {})

RunDisks ==
    { (IndexPage :> File(<<AsinX, Price100>>)) @@
      (SetupPage :> File(<<AsinX, LinkX, Price100>>)) @@
      (EnPage :> File(<<AsinX, Price999>>)) @@
      (GonePage :> Missing),
      (IndexPage :> File(<<AsinX, Price100, AsinY, Price100>>)) @@
      (SetupPage :> File(<<AsinX, AsinY, Price100>>)) @@
      (EnPage :> Missing) @@
      (GonePage :> Missing) }

\* ---- the run -----------------------------------------------------------------
RunInit ==
    /\ variant \in {"keepa", "creators", "paapi"}
    /\ creds \in (IF variant = "keepa"
                  THEN { [id |-> b, secret |-> FALSE] : b \in BOOLEAN }
                  ELSE [id : BOOLEAN, secret : BOOLEAN])
    /\ registry \in (IF variant = "keepa"
                     THEN { [products |-> ps, fr |-> <<>>, com |-> <<>>] :
                              ps \in KeepaRegistries }
                     ELSE BatchRegistries)
    /\ disk \in RunDisks
    /\ calls = <<>>
    /\ ChunksIdle
    /\ pc = "start"
    /\ byKey = <<>>
    /\ market = "fr"
    /\ batches = <<>>
    /\ idx = 0
    /\ ai = 0
    /\ resp = <<>>
    /\ filesUpdated = 0
    /\ asinsChecked = 0
    /\ errors = <<>>
    /\ total = 0
    /\ fetches = <<>>
    /\ events = <<>>
    /\ exitCode = Running
    /\ PureIdle
    /\ TokenIdle

\* if (!KEEPA_KEY) / if (!CLIENT_ID || !CLIENT_SECRET) /
\* if (!ACCESS_KEY || !SECRET_KEY) ... process.exit(1)
\* id: KEEPA_API_KEY, AMAZON_CLIENT_ID or AMAZON_ACCESS_KEY; secret:
\* AMAZON_CLIENT_SECRET or AMAZON_SECRET_KEY
HasCredsEither(v, c) == c.id \/ c.secret
HasCreds(v, c) == IF v = "keepa" THEN c.id ELSE c.id /\ c.secret

Preflight ==
    /\ pc = "start"
    /\ IF HasCreds(variant, creds)
       THEN pc' = "main" /\ exitCode' = exitCode
       ELSE pc' = "exited" /\ exitCode' = 1
    /\ UNCHANGED <<patchVars, chunkVars, pureVars, tokenVars, variant, creds, registry, ai, byKey, market,
                   batches, idx, resp, filesUpdated, asinsChecked, errors, total,
                   fetches, events>>

\* ---- Keepa main ---------------------------------------------------------------
KeepaMain ==
    /\ pc = "main" /\ variant = "keepa"
    /\ byKey' = Dedup(registry.products, <<>>)
    /\ filesUpdated' = 0
    /\ asinsChecked' = 0
    /\ errors' = <<>>
    /\ idx' = 1
    /\ pc' = IF Dedup(registry.products, <<>>) = <<>> THEN "summary" ELSE "fetch"
    /\ UNCHANGED <<patchVars, chunkVars, pureVars, tokenVars, variant, creds, registry, ai, market, batches,
                   resp, total, fetches, events, exitCode>>

\* asinsChecked++; price = await fetchKeepaPrice(asin, domain), with its
\* catch and the price == null test; threw: the fetch threw, price: what
\* it returned
KeepaFetchedNoTest(e, threw, price) ==
    /\ asinsChecked' = asinsChecked + 1
    /\ fetches' = Append(fetches,
          [asins |-> <<e.asin>>, market |-> e.domain, threw |-> threw,
           prices |-> <<price>>])
    /\ events' = Append(events, "fetch")
    /\ errors' = IF threw THEN Append(errors, e.asin) ELSE errors
    /\ resp' = <<price>>
    /\ pc' = IF threw THEN "delay" ELSE "patch"

KeepaFetchedNoTally(e, threw, price) ==
    /\ asinsChecked' = asinsChecked + 1
    /\ fetches' = Append(fetches,
          [asins |-> <<e.asin>>, market |-> e.domain, threw |-> threw,
           prices |-> <<price>>])
    /\ events' = Append(events, "fetch")
    /\ errors' = errors
    /\ resp' = <<price>>
    /\ pc' = IF threw \/ price = NoPrice THEN "delay" ELSE "patch"

KeepaFetched(e, threw, price) ==
    /\ asinsChecked' = asinsChecked + 1
    /\ fetches' = Append(fetches,
          [asins |-> <<e.asin>>, market |-> e.domain, threw |-> threw,
           prices |-> <<price>>])
    /\ events' = Append(events, "fetch")
    /\ errors' = IF threw THEN Append(errors, e.asin) ELSE errors
    /\ resp' = <<price>>
    /\ pc' = IF threw \/ price = NoPrice THEN "delay" ELSE "patch"

KeepaFetch(r) ==
    /\ pc = "fetch" /\ variant = "keepa"
    /\ KeepaFetched(byKey[idx], r.kind # "ok",
                    IF r.kind = "ok" THEN fetchKeepaPrice(r) ELSE NoPrice)
    /\ UNCHANGED <<patchVars, chunkVars, pureVars, tokenVars, variant, creds, registry, ai, byKey, market,
                   batches, idx, filesUpdated, total, exitCode>>

\* the files of one identifier have been patched with result u
Patched(u) ==
    /\ disk' = u.disk
    /\ calls' = calls \o u.recs
    /\ filesUpdated' = filesUpdated + u.updated
    /\ events' = Append(events, "patch")

\* for (const file of uniqueFiles) if (updateFilePrice(...)) filesUpdated++
KeepaPatch ==
    /\ pc = "patch" /\ variant = "keepa"
    /\ Patched(PatchFiles(disk, Unique(byKey[idx].files), byKey[idx].asin, resp[1],
                          byKey[idx].currency))
    /\ pc' = "delay"
    /\ UNCHANGED <<chunkVars, pureVars, tokenVars, variant, creds, registry, ai, byKey, market, batches, idx,
                   resp, asinsChecked, errors, total, fetches, exitCode>>

\* await new Promise((r) => setTimeout(r, KEEPA_DELAY_MS)), then the next entry
KeepaDelay ==
    /\ pc = "delay" /\ variant = "keepa"
    /\ events' = Append(events, "delay")
    /\ idx' = idx + 1
    /\ pc' = IF idx + 1 > Len(byKey) THEN "summary" ELSE "fetch"
    /\ UNCHANGED <<patchVars, chunkVars, pureVars, tokenVars, variant, creds, registry, ai, byKey, market,
                   batches, resp, filesUpdated, asinsChecked, errors, total, fetches,
                   exitCode>>

\* the closing tally; main resolves and the process ends with status 0
KeepaSummary ==
    /\ pc = "summary" /\ variant = "keepa"
    /\ total' = filesUpdated
    /\ pc' = "done"
    /\ exitCode' = 0
    /\ UNCHANGED <<patchVars, chunkVars, pureVars, tokenVars, variant, creds, registry, ai, byKey, market,
                   batches, idx, resp, filesUpdated, asinsChecked, errors, fetches,
                   events>>

\* ---- Creators API / PA-API main and processMarket ---------------------------
AsinMap(m) == IF m = "fr" THEN registry.fr ELSE registry.com

CurrencyOf(m) == IF m = "fr" THEN "€" ELSE "$"

\* the first lines of processMarket: asins, batches, filesUpdated = 0
EnterMarket(m) ==
    /\ market' = m
    /\ batches' = chunks(Keys(AsinMap(m)), BatchSize)
    /\ filesUpdated' = 0
    /\ idx' = 1
    /\ pc' = IF chunks(Keys(AsinMap(m)), BatchSize) = <<>> THEN "marketEnd" ELSE "fetch"

\* after one batch: the next batch, or the end of processMarket
NextBatch ==
    /\ idx' = idx + 1
    /\ pc' = IF idx + 1 > Len(batches) THEN "marketEnd" ELSE "fetch"

\* let total = 0; total += await processMarket(FR_ASINS, 'fr', '€')
BatchMain ==
    /\ pc = "main" /\ variant # "keepa"
    /\ total' = 0
    /\ EnterMarket("fr")
    /\ UNCHANGED <<patchVars, chunkVars, pureVars, tokenVars, variant, creds, registry, ai, byKey, resp,
                   asinsChecked, errors, fetches, events, exitCode>>

\* catch (err) { console.error(...); continue; }
SkipBatchUncaught == pc' = "exited" /\ idx' = idx /\ resp' = <<>> /\ ai' = ai
SkipBatch == NextBatch /\ resp' = <<>> /\ ai' = ai

\* prices = await fetchCreatorsPrices(batch, market) with its catch: continue
BatchFetch(r) ==
    /\ pc = "fetch" /\ variant # "keepa"
    /\ fetches' = Append(fetches,
          [asins |-> batches[idx], market |-> market,
           threw |-> FetchThrows(variant, r),
           prices |-> IF FetchThrows(variant, r) THEN <<>>
                      ELSE ParseItems(r.items, batches[idx]).prices])
    /\ events' = Append(events, "fetch")
    /\ IF FetchThrows(variant, r)
       THEN SkipBatch
       ELSE pc' = "patch" /\ idx' = idx /\ resp' = r.items /\ ai' = 1
    /\ UNCHANGED <<patchVars, chunkVars, pureVars, tokenVars, variant, creds, registry, byKey, market,
                   batches, filesUpdated, asinsChecked, errors, total, exitCode>>

\* after the last identifier of the batch: the delay test batches.length > 1
AfterBatch ==
    IF Len(batches) > 1
    THEN pc' = "delay" /\ idx' = idx
    ELSE NextBatch

\* one turn of for (const asin of batch): price = prices[asin];
\* if (price == null) continue;
BatchSkip ==
    /\ pc = "patch" /\ variant # "keepa"
    /\ ItemPrices(resp, batches[idx][ai]) = NoPrice
    /\ ai' = ai + 1
    /\ IF ai = Len(batches[idx]) THEN AfterBatch ELSE pc' = pc /\ idx' = idx
    /\ UNCHANGED <<patchVars, chunkVars, pureVars, tokenVars, variant, creds, registry, byKey, market,
                   batches, resp, filesUpdated, asinsChecked, errors, total, fetches,
                   events, exitCode>>

\* one turn of for (const asin of batch) with a price:
\* for (const file of asinMap[asin]) if (updateFilePrice(...)) filesUpdated++
BatchPatch ==
    /\ pc = "patch" /\ variant # "keepa"
    /\ ItemPrices(resp, batches[idx][ai]) # NoPrice
    /\ Patched(PatchFiles(disk, FilesOf(AsinMap(market), batches[idx][ai]),
                          batches[idx][ai], ItemPrices(resp, batches[idx][ai]),
                          CurrencyOf(market)))
    /\ ai' = ai + 1
    /\ IF ai = Len(batches[idx]) THEN AfterBatch ELSE pc' = pc /\ idx' = idx
    /\ UNCHANGED <<chunkVars, pureVars, tokenVars, variant, creds, registry, byKey, market, batches, resp,
                   asinsChecked, errors, total, fetches, exitCode>>

\* if (batches.length > 1) await new Promise((r) => setTimeout(r, 1000))
BatchDelay ==
    /\ pc = "delay" /\ variant # "keepa"
    /\ events' = Append(events, "delay")
    /\ NextBatch
    /\ UNCHANGED <<patchVars, chunkVars, pureVars, tokenVars, variant, creds, registry, ai, byKey, market,
                   batches, resp, filesUpdated, asinsChecked, errors, total, fetches,
                   exitCode>>

\* return filesUpdated; total += ...
MarketEnd ==
    /\ pc = "marketEnd" /\ variant # "keepa"
    /\ total' = total + filesUpdated
    /\ pc' = IF market = "fr" THEN "marketDelay" ELSE "summary"
    /\ UNCHANGED <<patchVars, chunkVars, pureVars, tokenVars, variant, creds, registry, ai, byKey, market,
                   batches, idx, resp, filesUpdated, asinsChecked, errors, fetches,
                   events, exitCode>>

\* await new Promise((r) => setTimeout(r, 1000)); processMarket(EN_ASINS, 'com', '$')
MarketDelay ==
    /\ pc = "marketDelay" /\ variant # "keepa"
    /\ events' = Append(events, "delay")
    /\ EnterMarket("com")
    /\ UNCHANGED <<patchVars, chunkVars, pureVars, tokenVars, variant, creds, registry, ai, byKey, resp,
                   asinsChecked, errors, total, fetches, exitCode>>

\* the closing line; main resolves and the process ends with status 0
BatchSummary ==
    /\ pc = "summary" /\ variant # "keepa"
    /\ pc' = "done"
    /\ exitCode' = 0
    /\ UNCHANGED <<patchVars, chunkVars, pureVars, tokenVars, variant, creds, registry, ai, byKey, market,
                   batches, idx, resp, filesUpdated, asinsChecked, errors, total,
                   fetches, events>>

RunNext ==
    \/ Preflight
    \/ KeepaMain
    \/ \E r \in KeepaResponses : KeepaFetch(r)
    \/ KeepaPatch
    \/ KeepaDelay
    \/ KeepaSummary
    \/ BatchMain
    \/ \E r \in BatchResponses(variant, IF pc = "fetch" /\ variant # "keepa"
                                        THEN batches[idx] ELSE <<"X">>) : BatchFetch(r)
    \/ BatchSkip
    \/ BatchPatch
    \/ BatchDelay
    \/ MarketEnd
    \/ MarketDelay
    \/ BatchSummary

RunSpec == RunInit /\ [][RunNext]_vars

\* ------------------------------------------------------------------------
\* Vocabulary of the properties, stated on the file as it was before a call
\* ------------------------------------------------------------------------
\* the lines of a logged file content
LinesOf(content) == content.lines

\* the lines the lookahead of the occurrence at line i may visit
Window(lines, i) == (i + 1)..Min(i + LookAhead - 1, Len(lines))

\* line k is an identifier declaration that is no price declaration
OtherProduct(lines, k) == lines[k].asinDecl /\ ~lines[k].isPrice

\* the price field of the occurrence at line i: the first price line of
\* its window with no identifier declaration before it; 0 when none
FieldOf(lines, i) ==
    LET cand == { j \in Window(lines, i) :
                    /\ lines[j].isPrice
                    /\ \A k \in (i + 1)..(j - 1) :
                          ~lines[k].isPrice /\ ~lines[k].asinDecl }
    IN  IF cand = {} THEN 0 ELSE CHOOSE j \in cand : TRUE

\* the lookahead of the occurrence at line i meets another identifier
\* declaration before any price line
Interrupted(lines, i) ==
    \E k \in Window(lines, i) :
        /\ OtherProduct(lines, k)
        /\ \A m \in (i + 1)..k : ~lines[m].isPrice

Occurrences(lines, asin) ==
    { i \in 1..Len(lines) : lines[i].asinDecl /\ asin \in lines[i].ids }

\* the recorded value of a price line, as an exact decimal
Recorded(line) == parseFloat(SelectSeq(line.val, LAMBDA c : IsDigit(c) \/ c = "."))

\* |new - old| / old * 100 >= 3, new in hundredths
AtLeastThreePercent(new, old) ==
    100 * Abs(new * old.den - 100 * old.num) >= 3 * 100 * old.num

CallsRead == { k \in 1..Len(calls) : calls[k].read }

Hundred == <<"1", "0", "0", "€">>

\* ------------------------------------------------------------------------
\* C1: for a located price field whose recorded value old parses to a
\* number > 0, updateFilePrice rewrites the field if and only if
\* |new - old| / old * 100 >= 3 (exactly 3% is rewritten), and writes the
\* rounded quote; old = 100 with new = 102 is left untouched, new = 104 is
\* rewritten to 104.
\* ------------------------------------------------------------------------
C1_ThresholdIff ==
    \A k \in CallsRead :
        LET c == calls[k]
            b == LinesOf(c.before)
            a == LinesOf(c.after)
        IN  \A i \in Occurrences(b, c.asin) :
                LET j == FieldOf(b, i)
                IN  (j # 0 /\ ~Recorded(b[j]).nan /\ Recorded(b[j]).num > 0) =>
                      /\ (j \in c.rewritten) <=> AtLeastThreePercent(c.price, Recorded(b[j]))
                      /\ j \in c.rewritten =>
                            a[j].val = formatted(c.currency, (c.price + 50) \div 100)
                      /\ j \notin c.rewritten => a[j] = b[j]
                      /\ (b[j].val = Hundred /\ c.price = 10200) => a[j] = b[j]
                      /\ (b[j].val = Hundred /\ c.price = 10400 /\ c.currency = "€") =>
                            a[j].val = <<"1", "0", "4", "€">>

\* a field recorded as 100 is rewritten by a quote of exactly 103
C1_Witness ==
    \E k \in CallsRead :
        LET c == calls[k]
            b == LinesOf(c.before)
        IN  \E i \in Occurrences(b, c.asin) :
                /\ FieldOf(b, i) # 0
                /\ b[FieldOf(b, i)].val = Hundred
                /\ c.price = 10300
                /\ FieldOf(b, i) \in c.rewritten

\* ------------------------------------------------------------------------
\* C2: an occurrence whose lookahead meets another identifier declaration
\* before any price line is abandoned: every line a call rewrites is the
\* price field of an occurrence of the identifier with no identifier
\* declaration in between, and a file all of whose occurrences are
\* interrupted is left unchanged and unwritten.
\* ------------------------------------------------------------------------
C2_ScanBoundary ==
    \A k \in CallsRead :
        LET c == calls[k]
            b == LinesOf(c.before)
        IN  /\ \A j \in c.rewritten :
                 \E i \in Occurrences(b, c.asin) :
                     /\ FieldOf(b, i) = j
                     /\ ~Interrupted(b, i)
            /\ (\A i \in Occurrences(b, c.asin) : Interrupted(b, i)) =>
                 (c.after = c.before /\ ~c.wrote /\ ~c.ret)

\* the identifier line is followed by another product's identifier line
\* and then by that product's price, 100, while the quote is 104
C2_Witness ==
    \E k \in CallsRead :
        LET c == calls[k]
            b == LinesOf(c.before)
        IN  /\ Len(b) >= 3
            /\ 1 \in Occurrences(b, c.asin)
            /\ OtherProduct(b, 2)
            /\ c.asin \notin b[2].ids
            /\ b[3].isPrice /\ b[3].val = Hundred
            /\ c.price = 10400
            /\ c.after = c.before

\* ------------------------------------------------------------------------
\* C3: a rewrite is confined to the quoted value of the patched price
\* line: the text up to the opening quote, the closing quote and the
\* trailing text of that line, every other line and the number of lines
\* are the same before and after the call.
\* ------------------------------------------------------------------------
C3_Frame ==
    \A k \in 1..Len(calls) :
        LET c == calls[k]
            b == LinesOf(c.before)
            a == LinesOf(c.after)
        IN  /\ c.after.exists = c.before.exists
            /\ Len(a) = Len(b)
            /\ \A j \in 1..Len(b) :
                 \/ a[j] = b[j]
                 \/ /\ b[j].isPrice
                    /\ a[j] = [b[j] EXCEPT !.val = a[j].val]

\* a double-quoted price line with a trailing comment was rewritten in a
\* file of several lines
C3_Witness ==
    \E k \in CallsRead :
        LET c == calls[k]
            b == LinesOf(c.before)
            a == LinesOf(c.after)
        IN  /\ Len(b) >= 2
            /\ \E j \in c.rewritten :
                 /\ b[j].post = "\", // promo"
                 /\ a[j].val # b[j].val

\* ------------------------------------------------------------------------
\* C4: the currency symbol and its position (prefix or suffix) in a
\* rewritten value are those of the original value of the field, for
\* every original value and every currency argument.
\* ------------------------------------------------------------------------
SymbolPosition(val) ==
    [prefix |-> IF val # <<>> /\ Head(val) \in Currencies THEN Head(val) ELSE "",
     suffix |-> IF val # <<>> /\ val[Len(val)] \in Currencies THEN val[Len(val)] ELSE ""]

C4_SymbolKept ==
    \A k \in CallsRead :
        LET c == calls[k]
        IN  \A j \in c.rewritten :
                SymbolPosition(LinesOf(c.after)[j].val)
                    = SymbolPosition(LinesOf(c.before)[j].val)

\* ------------------------------------------------------------------------
\* C5: calling updateFilePrice twice in succession with the same
\* arguments leaves the file after the second call identical to the file
\* after the first call.
\* ------------------------------------------------------------------------
SameArguments(c1, c2) ==
    /\ c1.file = c2.file
    /\ c1.asin = c2.asin
    /\ c1.price = c2.price
    /\ c1.currency = c2.currency

C5_Idempotent ==
    \A k \in 2..Len(calls) :
        SameArguments(calls[k - 1], calls[k]) =>
            /\ calls[k].before = calls[k - 1].after
            /\ calls[k].after = calls[k - 1].after

\* the first of two successive equal calls changed the file
C5_Witness ==
    \E k \in 2..Len(calls) :
        /\ SameArguments(calls[k - 1], calls[k])
        /\ calls[k - 1].after # calls[k - 1].before

\* ------------------------------------------------------------------------
\* C6: after a call has rewritten a field for a quote, an immediately
\* following call with the same quote rewrites no line, does not write
\* the file and returns false.
\* ------------------------------------------------------------------------
C6_SecondCallNoOp ==
    \A k \in 2..Len(calls) :
        (SameArguments(calls[k - 1], calls[k]) /\ calls[k - 1].rewritten # {}) =>
            /\ calls[k].rewritten = {}
            /\ ~calls[k].wrote
            /\ ~calls[k].ret

\* ------------------------------------------------------------------------
\* C8: chunks(arr, size) partitions arr in order: the batches concatenate
\* to arr, none is empty, all but the last have exactly size elements and
\* the last has between 1 and size; 23 identifiers in batches of 10 give
\* 10, 10, 3 and an empty list gives no batch.
\* ------------------------------------------------------------------------
RECURSIVE Concat(_)
Concat(ss) == IF ss = <<>> THEN <<>> ELSE Head(ss) \o Concat(Tail(ss))

C8_Partition ==
    cOut.done =>
        LET out == cOut.out
        IN  /\ Concat(out) = cArr
            /\ \A b \in 1..Len(out) :
                 /\ Len(out[b]) >= 1
                 /\ Len(out[b]) <= cSize
                 /\ b < Len(out) => Len(out[b]) = cSize
            /\ (cArr = <<>>) => (out = <<>>)
            /\ (Len(cArr) = 23 /\ cSize = 10) =>
                 [b \in 1..Len(out) |-> Len(out[b])] = <<10, 10, 3>>

\* 23 identifiers were split with the batch size of the program
C8_Witness ==
    /\ cOut.done
    /\ Len(cArr) = 23
    /\ cSize = BatchSize
    /\ Len(cOut.out) = 3

\* ------------------------------------------------------------------------
\* Vocabulary of the properties of a run
\* ------------------------------------------------------------------------
\* the (identifier, market) pairs of the registry
RegistryPairs ==
    IF variant = "keepa"
    THEN { <<registry.products[k].asin, registry.products[k].domain>> :
             k \in 1..Len(registry.products) }
    ELSE { <<registry.fr[k].asin, "fr">> : k \in 1..Len(registry.fr) } \cup
         { <<registry.com[k].asin, "com">> : k \in 1..Len(registry.com) }

Range(seq) == { seq[n] : n \in 1..Len(seq) }

\* the registry entries of an identifier under a market
EntriesOf(asin, m) ==
    IF variant = "keepa"
    THEN { p \in Range(registry.products) : p.asin = asin /\ p.domain = m }
    ELSE { p \in Range(IF m = "fr" THEN registry.fr ELSE registry.com) :
             p.asin = asin }

\* the files the registry lists for an identifier under a market
Registered(asin, m) == UNION { Range(p.files) : p \in EntriesOf(asin, m) }

\* the invocations of the fetcher that ask for an identifier under a
\* market, as positions <<invocation, place in its identifier list>>
FetchesOf(asin, m) ==
    { kn \in (1..Len(fetches)) \X (1..BatchSize) :
        /\ fetches[kn[1]].market = m
        /\ kn[2] <= Len(fetches[kn[1]].asins)
        /\ fetches[kn[1]].asins[kn[2]] = asin }

\* the quotes received in the run: <<identifier, market, quote>>
Quoted ==
    { <<fetches[kn[1]].asins[kn[2]], fetches[kn[1]].market,
        fetches[kn[1]].prices[kn[2]]>> :
        kn \in { x \in (1..Len(fetches)) \X (1..BatchSize) :
                   /\ ~fetches[x[1]].threw
                   /\ x[2] <= Len(fetches[x[1]].asins)
                   /\ fetches[x[1]].prices[x[2]] # NoPrice } }

\* the calls of the patcher on a file for an identifier
CallsOn(file, asin) ==
    { k \in 1..Len(calls) : calls[k].file = file /\ calls[k].asin = asin }

\* the price fields of the identifier of a call, in the file as the call
\* found it, whose recorded value parses to a number > 0
FieldsOf(c) ==
    IF ~c.before.exists THEN {}
    ELSE { j \in 1..Len(c.before.lines) :
             /\ \E i \in Occurrences(c.before.lines, c.asin) :
                    FieldOf(c.before.lines, i) = j
             /\ ~Recorded(c.before.lines[j]).nan
             /\ Recorded(c.before.lines[j]).num > 0 }

\* those at least 3% away from the quote of the call
FieldsAway(c) ==
    { j \in FieldsOf(c) : AtLeastThreePercent(c.price, Recorded(c.before.lines[j])) }

\* ------------------------------------------------------------------------
\* C7: in a run, the fetcher is invoked exactly once for each distinct
\* (identifier, market) pair of the registry, however many registry
\* entries or file lists mention the pair (never more than once while the
\* run is under way); an identifier under two markets is fetched once per
\* market.
\* ------------------------------------------------------------------------
C7_FetchedOnce ==
    /\ \A pair \in RegistryPairs :
          Cardinality(FetchesOf(pair[1], pair[2])) <= 1
    /\ pc = "done" =>
          \A pair \in RegistryPairs :
              Cardinality(FetchesOf(pair[1], pair[2])) = 1

\* a finished run over a registry with two entries of the same identifier
\* and market whose file lists differ
C7_Witness ==
    /\ pc = "done"
    /\ variant = "keepa"
    /\ Len(registry.products) = 2
    /\ registry.products[1].asin = registry.products[2].asin
    /\ registry.products[1].domain = registry.products[2].domain
    /\ registry.products[1].files # registry.products[2].files
    /\ Len(fetches) = 1

\* ------------------------------------------------------------------------
\* C9: a call of updateFilePrice on a file that does not exist returns
\* false without reading or writing, and every other file registered for
\* the identifier still gets a call with the same quote, wherever the
\* missing file stands in the list.
\* ------------------------------------------------------------------------
C9_MissingFileSkipped ==
    /\ \A k \in 1..Len(calls) :
          ~calls[k].before.exists =>
              /\ ~calls[k].ret /\ ~calls[k].read /\ ~calls[k].wrote
              /\ calls[k].after = calls[k].before
    /\ pc = "done" =>
          \A q \in Quoted :
              (\E f \in Registered(q[1], q[2]) : ~disk[f].exists) =>
                  \A f \in Registered(q[1], q[2]) :
                      \E k \in CallsOn(f, q[1]) : calls[k].price = q[3]

\* the missing file stood between two files, and both were rewritten
C9_Witness ==
    \E k \in 2..(Len(calls) - 1) :
        /\ ~calls[k].before.exists
        /\ calls[k - 1].asin = calls[k].asin /\ calls[k + 1].asin = calls[k].asin
        /\ calls[k - 1].price = calls[k].price /\ calls[k + 1].price = calls[k].price
        /\ calls[k - 1].ret /\ calls[k + 1].ret

\* ------------------------------------------------------------------------
\* C10: for every identifier that received a quote q, updateFilePrice is
\* called once, with q, on each file registered for it; at the end of the
\* run every field of the identifier that was recorded at least 3% away
\* from q holds round(q), and the files-updated count of the summary is
\* the number of calls that found such a field.  One identifier recorded
\* as '100€' in two files with quote 106.40 ends with '106€' in both, 2
\* files updated, 1 identifier checked and no error.
\* ------------------------------------------------------------------------
ExampleRun ==
    /\ variant = "keepa"
    /\ registry.products = <<Entry("X", 4, "€", <<IndexPage, SetupPage>>)>>
    /\ Len(fetches) = 1 /\ fetches[1].prices = <<10640>>
    /\ Len(calls) = 2
    /\ \A k \in 1..2 :
          /\ FieldsOf(calls[k]) # {}
          /\ \A j \in FieldsOf(calls[k]) : calls[k].before.lines[j].val = Hundred

FailedFetches == { k \in 1..Len(fetches) : fetches[k].threw }

C11_Skipped ==
    /\ \A k \in FailedFetches : \A n \in 1..Len(fetches[k].asins) :
          \A f \in Registered(fetches[k].asins[n], fetches[k].market) :
              CallsOn(f, fetches[k].asins[n]) = {}
    /\ (pc = "exited") => (fetches = <<>> /\ exitCode = 1)
    /\ (pc = "done") =>
          /\ exitCode = 0
          /\ \A pair \in RegistryPairs : FetchesOf(pair[1], pair[2]) # {}
          /\ \A q \in Quoted : \A f \in Registered(q[1], q[2]) :
                CallsOn(f, q[1]) # {}

\* the step in which a fetch fails leaves the files alone and goes on to
\* the delay, the next fetch or the end of the market
C11_FailedStep ==
    (Len(fetches') > Len(fetches) /\ fetches'[Len(fetches')].threw) =>
        /\ disk' = disk /\ calls' = calls
        /\ pc' \in {"fetch", "delay", "marketEnd"}
        /\ exitCode' = Running

C11_FailureSkipsBatch == []C11_Skipped /\ [][C11_FailedStep]_vars

\* a finished run in which a batch failed, a later batch of the same
\* market was fetched and led to a rewritten file, and the other market
\* was fetched as well
C11_Witness ==
    /\ pc = "done"
    /\ variant # "keepa"
    /\ \E k \in FailedFetches : \E m \in (k + 1)..Len(fetches) :
          /\ fetches[m].market = fetches[k].market
          /\ ~fetches[m].threw
          /\ \E c \in 1..Len(calls) :
                /\ calls[c].ret
                /\ \E n \in 1..Len(fetches[m].asins) :
                      fetches[m].asins[n] = calls[c].asin
    /\ \E m \in 1..Len(fetches) : fetches[m].market = "com"

\* ------------------------------------------------------------------------
\* C12 as stated: at the end of a run, in each variant, the error tally
\* holds one entry for every recoverable error of the sweep, failed
\* fetches and missing-file skips alike.
\* ------------------------------------------------------------------------
MissingSkips == { k \in 1..Len(calls) : ~calls[k].before.exists }

RECURSIVE FailedAsins(_)
FailedAsins(fs) ==
    IF fs = <<>> THEN <<>>
    ELSE FailedAsins(SubSeq(fs, 1, Len(fs) - 1)) \o
         (IF fs[Len(fs)].threw THEN fs[Len(fs)].asins ELSE <<>>)

C13_DelayBetweenFetches ==
    \A i \in 1..Len(events) : \A j \in (i + 1)..Len(events) :
        (events[i] = "fetch" /\ events[j] = "fetch") =>
            \E m \in (i + 1)..(j - 1) : events[m] = "delay"

\* ------------------------------------------------------------------------
\* C14: when a required credential is absent at start, the run ends with
\* a non-zero exit status and no fetch is issued and no file is read or
\* written.
\* ------------------------------------------------------------------------
Required == IF variant = "keepa" THEN {"id"} ELSE {"id", "secret"}

CredentialAbsent == \E f \in Required : ~creds[f]

C14_PreflightExit ==
    CredentialAbsent =>
        /\ pc \in {"start", "exited"}
        /\ fetches = <<>> /\ events = <<>>
        /\ calls = <<>>
        /\ exitCode \in {Running, 1}
        /\ pc = "exited" => exitCode = 1

\* a Creators API or PA-API run with the identifier set and the secret
\* absent has exited
C14_Witness ==
    /\ variant # "keepa"
    /\ creds.id /\ ~creds.secret
    /\ pc = "exited"
    /\ exitCode = 1

\* ------------------------------------------------------------------------
\* C15: every call of updateFilePrice is made for an identifier and a
\* file of the registry after a fetch has returned a quote for that
\* identifier, and with that quote; an identifier without quote (absent
\* from the response, or whose fetch failed) has none of its files read
\* or written.
\* ------------------------------------------------------------------------
QuotedPairs == { <<q[1], q[2]>> : q \in Quoted }

C15_PatchAfterQuote ==
    /\ \A k \in 1..Len(calls) :
          \E q \in Quoted :
              /\ q[1] = calls[k].asin
              /\ calls[k].file \in Registered(q[1], q[2])
              /\ calls[k].price = q[3]
    /\ \A pair \in RegistryPairs \ QuotedPairs :
          \A f \in Registered(pair[1], pair[2]) : CallsOn(f, pair[1]) = {}

\* a finished run in which one response held a quote for one identifier
\* and none for another whose file exists, and the first was patched
C15_Witness ==
    /\ pc = "done"
    /\ \E k \in 1..Len(fetches) :
          /\ ~fetches[k].threw
          /\ \E n, m \in 1..Len(fetches[k].asins) :
                /\ fetches[k].prices[n] = NoPrice
                /\ \E f \in Registered(fetches[k].asins[n], fetches[k].market) :
                      disk[f].exists
                /\ fetches[k].prices[m] # NoPrice
                /\ \E c \in 1..Len(calls) :
                      calls[c].asin = fetches[k].asins[m] /\ calls[c].read

\* ------------------------------------------------------------------------
\* Specification of fetchKeepaPrice alone: a response with res.ok, then
\* the value returned for it
\* ------------------------------------------------------------------------
\* what a slot of stats.current may hold: nothing, the Keepa marker -1,
\* 0, or a price
Slots == {Undefined, -1, 0, 999, 10640}

KeepaInputs ==
    { KeepaData(FALSE, FALSE, Undefined, Undefined, Undefined) } \cup
    { KeepaData(TRUE, hasStats, b, d, m) :
        hasStats \in BOOLEAN, b \in Slots, d \in Slots, m \in Slots }

KeepaInit ==
    /\ fArg \in KeepaInputs
    /\ fRet = NoResult
    /\ disk = [f \in {PatchFile} |-> Missing]
    /\ calls = <<>>
    /\ ChunksIdle
    /\ RunIdle
    /\ TokenIdle

KeepaCall ==
    /\ fRet = NoResult
    /\ fRet' = [done |-> TRUE, out |-> fetchKeepaPrice(fArg)]
    /\ UNCHANGED <<patchVars, chunkVars, runVars, fArg, tokenVars>>

KeepaNext == KeepaCall

KeepaSpec == KeepaInit /\ [][KeepaNext]_vars

\* ------------------------------------------------------------------------
\* C16: fetchKeepaPrice returns the buy-box slot if it is present and
\* positive, else the direct slot if present and positive, else the
\* marketplace slot if present and positive, else no quote; an absent
\* slot, -1 and 0 count as not present.  The quote is the slot divided by
\* 100: in hundredths, the slot itself.
\* ------------------------------------------------------------------------
Present(slot) == slot \notin {Undefined, -1, 0}

C16_Precedence ==
    (fRet.done /\ fArg.hasProduct /\ fArg.hasStats) =>
        fRet.out = IF Present(fArg.buyBox) THEN fArg.buyBox
                   ELSE IF Present(fArg.direct) THEN fArg.direct
                   ELSE IF Present(fArg.marketNew) THEN fArg.marketNew
                   ELSE NoPrice

\* the buy-box slot holds -1, the direct slot 0, and the marketplace
\* price was returned
C16_Witness ==
    /\ fRet.done
    /\ fArg.hasProduct /\ fArg.hasStats
    /\ fArg.buyBox = -1 /\ fArg.direct = 0 /\ fArg.marketNew = 999
    /\ fRet.out = 999

\* ------------------------------------------------------------------------
\* Specification of the lookahead: a file whose identifier line is
\* followed by gap - 1 other lines and then by a price line, then calls of
\* updateFilePrice on it
\* ------------------------------------------------------------------------
NameLine == NonPrice("    name: 'Desk',", FALSE, {})

GapFile(gap, price, tail) ==
    <<AsinX>> \o [k \in 1..(gap - 1) |-> NameLine] \o <<price>> \o tail

LookInit ==
    /\ disk \in [{PatchFile} ->
                   { File(GapFile(gap, price, tail)) :
                       gap \in 1..MaxGap, price \in {Price100, Price999},
                       tail \in {<<>>, <<NameLine>>, <<AsinY, Price100>>} }]
    /\ calls = <<>>
    /\ ChunksIdle
    /\ RunIdle
    /\ PureIdle
    /\ TokenIdle

LookSpec == LookInit /\ [][PatchNext]_vars

\* ------------------------------------------------------------------------
\* C17: the lookahead after an identifier line covers the next 10 lines:
\* a price line k lines after it, with no identifier line and no other
\* price line in between, is found and evaluated (so rewritten when at
\* least 3% away from the quote) for every k from 1 to 10, and is not
\* reached for k > 10.
\* ------------------------------------------------------------------------
\* the price line k lines after line i is the first one after it, with
\* no identifier declaration in between
FirstPriceAt(lines, i, k) ==
    /\ i + k <= Len(lines)
    /\ lines[i + k].isPrice
    /\ \A m \in (i + 1)..(i + k - 1) : ~lines[m].isPrice /\ ~lines[m].asinDecl

C17_TenLines ==
    \A c \in CallsRead :
        LET b == LinesOf(calls[c].before)
        IN  \A i \in Occurrences(b, calls[c].asin) : \A k \in 1..(Len(b) - i) :
                (/\ FirstPriceAt(b, i, k)
                 /\ ~Recorded(b[i + k]).nan /\ Recorded(b[i + k]).num > 0
                 /\ AtLeastThreePercent(calls[c].price, Recorded(b[i + k]))) =>
                    ((i + k) \in calls[c].rewritten <=> k <= 10)

\* ------------------------------------------------------------------------
\* C18: updateFilePrice writes the file, and returns true, if and only if
\* at least one line of the file differs after the scan from what it was
\* before; when no line differs the file is not written and false is
\* returned.
\* ------------------------------------------------------------------------
SomeLineDiffers(c) ==
    \E j \in 1..Len(c.before.lines) : c.after.lines[j] # c.before.lines[j]

C18_WriteIffChanged ==
    \A k \in CallsRead :
        /\ calls[k].wrote <=> SomeLineDiffers(calls[k])
        /\ calls[k].ret <=> SomeLineDiffers(calls[k])

\* ------------------------------------------------------------------------
\* getBearerToken(market) and its specification.  Times are in seconds
\* (the source counts milliseconds: 60_000 and expires_in * 1000).
\* ------------------------------------------------------------------------
Markets == {"fr", "com"}

\* tokenCache[market] && tokenCache[market].expiresAt > now + 60_000
FreshInclusive(entry, t) == entry.set /\ entry.expiresAt >= t + RefreshMargin
Fresh(entry, t) == entry.set /\ entry.expiresAt > t + RefreshMargin

\* data.expires_in ?? 3600
Lifetime(r) == IF r.expires_in = Undefined THEN DefaultLifetime ELSE r.expires_in

\* the answers of the token endpoint: not ok, or ok with or without
\* expires_in
TokenResponses ==
    { [ok |-> FALSE, expires_in |-> Undefined],
      [ok |-> TRUE, expires_in |-> Undefined],
      [ok |-> TRUE, expires_in |-> 120] }

\* getBearerToken(m) at time t with the cache as it is, r being the answer
\* of the token endpoint of m if it is asked and access_token the token it
\* issues
getBearerToken(cache, t, m, r, access_token) ==
    IF Fresh(cache[m], t)
    THEN [cache |-> cache, requested |-> FALSE, threw |-> FALSE,
          token |-> cache[m].token]
    ELSE IF ~r.ok
    THEN [cache |-> cache, requested |-> TRUE, threw |-> TRUE, token |-> <<>>]
    ELSE [cache |-> [cache EXCEPT ![m] = [set |-> TRUE, token |-> access_token,
                                          expiresAt |-> t + Lifetime(r)]],
          requested |-> TRUE, threw |-> FALSE, token |-> access_token]

\* the seconds that pass before a call
Elapsed == {0, 59, 60, 61, 3540}

TokenInit ==
    /\ TokenIdle
    /\ disk = [f \in {PatchFile} |-> Missing]
    /\ calls = <<>>
    /\ ChunksIdle
    /\ RunIdle
    /\ PureIdle

\* the call has resulted in g at time t
TokenCalled(g, t, m) ==
    /\ now' = t
    /\ tokenCache' = g.cache
    /\ tokenLog' = Append(tokenLog,
          [market |-> m, at |-> t, cached |-> tokenCache[m],
           requested |-> g.requested, threw |-> g.threw, token |-> g.token])

\* a call of getBearerToken(m), dt seconds after the previous one
TokenCall(m, r, dt) ==
    /\ Len(tokenLog) < MaxTokenCalls
    /\ TokenCalled(getBearerToken(tokenCache, now + dt, m, r,
                                  <<m, Len(tokenLog) + 1>>),
                   now + dt, m)
    /\ UNCHANGED <<patchVars, chunkVars, runVars, pureVars>>

TokenNext == \E m \in Markets, r \in TokenResponses, dt \in Elapsed : TokenCall(m, r, dt)

TokenSpec == TokenInit /\ [][TokenNext]_vars

\* ------------------------------------------------------------------------
\* C19 as stated: getBearerToken(market) returns the token cached for the
\* market, without asking the token endpoint, whenever that token has at
\* least 60 seconds of validity left; it asks for a new token only when
\* fewer than 60 seconds remain or none is cached; it never returns a
\* token of another market.
\* ------------------------------------------------------------------------
Remaining(e) == e.cached.expiresAt - e.at

OwnToken(e) == e.threw \/ e.token[1] = e.market

C19_CachedAtSixty ==
    \A k \in 1..Len(tokenLog) :
        /\ (tokenLog[k].cached.set /\ Remaining(tokenLog[k]) >= 60) =>
              (~tokenLog[k].requested /\ tokenLog[k].token = tokenLog[k].cached.token)
        /\ tokenLog[k].requested =>
              (~tokenLog[k].cached.set \/ Remaining(tokenLog[k]) < 60)
        /\ OwnToken(tokenLog[k])

\* C19 amended: the cached token of the market is returned without asking
\* the token endpoint whenever it has more than 60 seconds of validity
\* left; a new token is asked for exactly when 60 seconds or fewer remain
\* or none is cached; a token of another market is never returned.
C19_CachedAboveSixty ==
    \A k \in 1..Len(tokenLog) :
        /\ (tokenLog[k].cached.set /\ Remaining(tokenLog[k]) > 60) =>
              (~tokenLog[k].requested /\ tokenLog[k].token = tokenLog[k].cached.token)
        /\ tokenLog[k].requested <=>
              (~tokenLog[k].cached.set \/ Remaining(tokenLog[k]) <= 60)
        /\ OwnToken(tokenLog[k])

\* a token with exactly 60 seconds left was replaced by a new one
C19_Witness ==
    \E k \in 1..Len(tokenLog) :
        /\ tokenLog[k].cached.set
        /\ Remaining(tokenLog[k]) = 60
        /\ tokenLog[k].requested /\ ~tokenLog[k].threw
        /\ tokenLog[k].token # tokenLog[k].cached.token

\* ------------------------------------------------------------------------
\* Specification of the items loop of fetchCreatorsPrices / fetchPAAIPrices
\* alone: the items of a response with res.ok, then what the fetch makes
\* of them
\* ------------------------------------------------------------------------
\* an entry with a price, one without listings or price, a null entry
ItemShapes == { Item("X", 10640), Item("Y", 10200), Item("X", NoPrice), NullItem }

ItemsInit ==
    /\ fArg \in { [asins |-> <<"X", "Y">>, items |-> its] :
                    its \in UNION { [1..n -> ItemShapes] : n \in 0..MaxItems } }
    /\ fRet = NoResult
    /\ disk = [f \in {PatchFile} |-> Missing]
    /\ calls = <<>>
    /\ ChunksIdle
    /\ RunIdle
    /\ TokenIdle

ItemsCall ==
    /\ fRet = NoResult
    /\ fRet' = [done |-> TRUE, out |-> ParseItems(fArg.items, fArg.asins)]
    /\ UNCHANGED <<patchVars, chunkVars, runVars, fArg, tokenVars>>

ItemsNext == ItemsCall

ItemsSpec == ItemsInit /\ [][ItemsNext]_vars

\* ------------------------------------------------------------------------
\* C20: in a response with res.ok, an entry of the items array without
\* listings or price, or a null entry, is skipped on its own: the fetch
\* does not fail and returns, for every identifier, the quote of its last
\* well-formed entry.
\* ------------------------------------------------------------------------
WellFormed(items, asin) ==
    { k \in 1..Len(items) :
        ~items[k].isNull /\ items[k].asin = asin /\ items[k].amount # NoPrice }

Last(S) == CHOOSE k \in S : \A m \in S : m <= k

C20_MalformedSkipped ==
    fRet.done =>
        /\ ~fRet.out.threw
        /\ \A n \in 1..Len(fArg.asins) :
              fRet.out.prices[n] =
                  IF WellFormed(fArg.items, fArg.asins[n]) = {} THEN NoPrice
                  ELSE fArg.items[Last(WellFormed(fArg.items, fArg.asins[n]))].amount

\* ------------------------------------------------------------------------
\* Specification of the scan over several product blocks: a file made of
\* blocks, each an identifier line with or without a price line, then
\* calls of updateFilePrice on it
\* ------------------------------------------------------------------------
PriceNA == PriceLine("    price: '", <<"N", "/", "A">>, "',", FALSE, {})
Price0 == PriceLine("    price: '", <<"0", "€">>, "',", FALSE, {})

Blocks ==
    { <<AsinX>>, <<AsinX, Price100>>, <<AsinX, PriceNA>>, <<AsinX, Price0>>,
      <<AsinX, Price999>>, <<AsinY, Price100>> }

BlocksInit ==
    /\ disk \in [{PatchFile} ->
                   { File(Concat(bs)) :
                       bs \in UNION { [1..n -> Blocks] : n \in 1..MaxBlocks } }]
    /\ calls = <<>>
    /\ ChunksIdle
    /\ RunIdle
    /\ PureIdle
    /\ TokenIdle

BlocksSpec == BlocksInit /\ [][PatchNext]_vars

\* ------------------------------------------------------------------------
\* C21: when the identifier is declared several times in a file, an
\* occurrence that is below threshold, has no price field or holds an
\* unparsable value does not stop the scan: every later occurrence whose
\* own recorded value is at least 3% away from the quote is rewritten in
\* the same call, and one whose own value is nearer is left as it is.
\* ------------------------------------------------------------------------
\* the occurrence at line i leads to no rewrite
Passed(c, i) ==
    \/ FieldOf(c.before.lines, i) = 0
    \/ FieldOf(c.before.lines, i) \notin FieldsAway(c)

C21_EachOccurrence ==
    \A k \in CallsRead :
        \A i0 \in Occurrences(calls[k].before.lines, calls[k].asin) :
            \A i \in Occurrences(calls[k].before.lines, calls[k].asin) :
                (i0 < i /\ Passed(calls[k], i0) /\ FieldOf(calls[k].before.lines, i) # 0) =>
                    /\ FieldOf(calls[k].before.lines, i) \in calls[k].rewritten
                          <=> FieldOf(calls[k].before.lines, i) \in FieldsAway(calls[k])
                    /\ FieldOf(calls[k].before.lines, i) \in FieldsAway(calls[k]) =>
                          calls[k].after.lines[FieldOf(calls[k].before.lines, i)].val
                              = formatted(calls[k].currency, (calls[k].price + 50) \div 100)

\* the first occurrence holds 100 and stays, with the quote 102, and the
\* second, holding 9.99, is rewritten
C21_Witness ==
    \E k \in CallsRead :
        /\ calls[k].price = 10200
        /\ Len(calls[k].before.lines) = 4
        /\ Occurrences(calls[k].before.lines, calls[k].asin) = {1, 3}
        /\ calls[k].before.lines[2] = Price100
        /\ calls[k].rewritten = {4}

\* ------------------------------------------------------------------------
\* C22: every value updateFilePrice writes into a price field is a
\* positive integer: a rewritten field never holds 0, which every later
\* call would abandon as unparsable.
\* ------------------------------------------------------------------------
C22_PositiveWritten ==
    \A k \in CallsRead : \A j \in calls[k].rewritten :
        /\ ~Recorded(calls[k].after.lines[j]).nan
        /\ Recorded(calls[k].after.lines[j]).den = 1
        /\ Recorded(calls[k].after.lines[j]).num > 0

\* ------------------------------------------------------------------------
\* C23: the files-updated count of the final summary is the number of
\* distinct files whose content was changed during the run, also when one
\* file holds the price fields of several identifiers that are each
\* rewritten.
\* ------------------------------------------------------------------------
FilesChanged ==
    { f \in DOMAIN disk :
        \E k \in 1..Len(calls) :
            calls[k].file = f /\ calls[k].after # calls[k].before }

C23_DistinctFilesCounted ==
    pc = "done" => total = Cardinality(FilesChanged)

\* ------------------------------------------------------------------------
\* fetchPAAIPrices: the timestamp of the request, and its specification.
\* A time is what new Date() holds, in UTC; a string is a sequence of
\* characters.
\* ------------------------------------------------------------------------
\* n written with at least w digits, zero-padded
RECURSIVE Pad(_, _)
Pad(n, w) == IF Len(ToDigits(n)) >= w THEN ToDigits(n)
             ELSE <<"0">> \o SubSeq(Pad(n, w - 1), 1, w - 1)

\* now.toISOString(): YYYY-MM-DDTHH:mm:ss.sssZ
toISOString(t) ==
    Pad(t.year, 4) \o <<"-">> \o Pad(t.month, 2) \o <<"-">> \o Pad(t.day, 2)
    \o <<"T">> \o Pad(t.hour, 2) \o <<":">> \o Pad(t.minute, 2) \o <<":">>
    \o Pad(t.second, 2) \o <<".">> \o Pad(t.ms, 3) \o <<"Z">>

\* .replace(/[:\-]|\.\d{3}/g, '')
RECURSIVE StripPunctuation(_)
StripPunctuation(s) ==
    IF s = <<>> THEN <<>>
    ELSE IF Head(s) = ":" \/ Head(s) = "-" THEN StripPunctuation(Tail(s))
    ELSE IF /\ Head(s) = "." /\ Len(s) >= 4
            /\ IsDigit(s[2]) /\ IsDigit(s[3]) /\ IsDigit(s[4])
    THEN StripPunctuation(SubSeq(s, 5, Len(s)))
    ELSE <<Head(s)>> \o StripPunctuation(Tail(s))

\* .replace(from, to) with a string pattern: the first occurrence only
RECURSIVE ReplaceFirst(_, _, _)
ReplaceFirst(s, from, to) ==
    IF s = <<>> THEN <<>>
    ELSE IF Head(s) = from THEN <<to>> \o Tail(s)
    ELSE <<Head(s)>> \o ReplaceFirst(Tail(s), from, to)

\* .slice(0, n)
SliceTo(s, n) == SubSeq(s, 1, Min(n, Len(s)))

\* const amzDate = now.toISOString().replace(...).replace('T', 'T')
\*                    .slice(0, 16) + '00Z'
amzDate(t) ==
    SliceTo(ReplaceFirst(StripPunctuation(toISOString(t)), "T", "T"), 16)
        \o <<"0", "0", "Z">>

\* const dateStamp = amzDate.slice(0, 8)
dateStamp(t) == SliceTo(amzDate(t), 8)

\* the request times of the exploration
Times ==
    [year : {2026}, month : {1, 11}, day : {4, 30}, hour : {0, 16, 23},
     minute : {5, 59}, second : {0, 26}, ms : {0, 123}]

StampInit ==
    /\ fArg \in Times
    /\ fRet = NoResult
    /\ disk = [f \in {PatchFile} |-> Missing]
    /\ calls = <<>>
    /\ ChunksIdle
    /\ RunIdle
    /\ TokenIdle

\* the x-amz-date header, the second line of the string-to-sign and the
\* date of the credential scope of one request
StampCall ==
    /\ fRet = NoResult
    /\ fRet' = [done |-> TRUE,
                out |-> [header |-> amzDate(fArg), toSign |-> amzDate(fArg),
                         scope |-> dateStamp(fArg)]]
    /\ UNCHANGED <<patchVars, chunkVars, runVars, fArg, tokenVars>>

StampNext == StampCall

StampSpec == StampInit /\ [][StampNext]_vars

\* ------------------------------------------------------------------------
\* C24: for every request time, the timestamp fetchPAAIPrices puts in the
\* x-amz-date header and in the string-to-sign has the 16-character form
\* YYYYMMDD T HHMMSS Z, and the date of the credential scope is its first
\* eight characters.
\* ------------------------------------------------------------------------
BasicFormat(s) ==
    /\ Len(s) = 16
    /\ \A k \in (1..8) \cup (10..15) : IsDigit(s[k])
    /\ s[9] = "T"
    /\ s[16] = "Z"

C24_AmzDateFormat ==
    fRet.done =>
        /\ BasicFormat(fRet.out.header)
        /\ fRet.out.toSign = fRet.out.header
        /\ fRet.out.scope = SubSeq(fRet.out.header, 1, 8)

====
